---- MODULE Spec2Model ----
(***************************************************************************)
(* Model of typst's HTML exporter (crates/typst-html) and of the HTML DOM  *)
(* it builds (crates/typst-library/src/html).                              *)
(*                                                                         *)
(* Strings are sequences of one-character strings, so that escaping can   *)
(* be followed character by character.  Option<T> is a sequence of length *)
(* at most one: None is <<>>, Some(v) is <<v>>.  A SourceResult is a      *)
(* record with an `ok` field and either the value or the error.            *)
(*                                                                         *)
(* Three specifications share the variables:                               *)
(*   SpecEncode  html(document), the serializer (encode.rs)                *)
(*   SpecRoot    root_element(output, info), the root resolver (lib.rs)    *)
(*   SpecBuild   html_document / html_fragment, the node builder (lib.rs)  *)
(***************************************************************************)
EXTENDS Integers, Sequences, FiniteSets, TLC

VARIABLES
    pc,         \* "start" before the operation ran, "done" after it
    content,    \* SpecBuild: the content handed to the entry point
    route,      \* SpecBuild: length of the caller's route (outer nesting)
    info,       \* SpecBuild, SpecRoot: the DocumentInfo (its title)
    output,     \* SpecRoot: the top-level node sequence given to root_element
    sink,       \* SpecBuild: the warnings of engine.sink, in order
    realized,   \* SpecBuild: the calls made to routines.realize, in order
    scopes,     \* SpecBuild: the spans locator.next was called with, in order
    result,     \* SpecBuild, SpecRoot: the SourceResult the operation returned
    document,   \* SpecEncode: the HtmlDocument's root element
    buf         \* SpecEncode: Writer.buf, the String html() returns

vars ==
    <<pc, content, route, info, output, sink, realized, scopes, result, document, buf>>

(***************************************************************************)
(* Bounds of the model.                                                    *)
(***************************************************************************)
\* Longest text drawn for a text node on its own.
MaxTextLen == 3
\* Most nodes (elements and texts) of a DOM tree handed to the serializer.
MaxDomNodes == 3
\* Longest top-level node sequence handed to the root resolver.
MaxTopLen == 3
\* Most content items of the content handed to the node builder.
MaxContentSize == 3

None == <<>>
Some(v) == <<v>>

(***************************************************************************)
(* DOM model: typst-library/src/html/dom.rs                                *)
(***************************************************************************)
\* Span::detached()
Detached == 0

\* HtmlNode::text
Text(text) == [type |-> "Text", text |-> text]

\* impl From<HtmlElement> for HtmlNode
Element(element) == [type |-> "Element", element |-> element]

\* HtmlElement::new
HtmlElementNew(tag, span) ==
    [tag |-> tag, attrs |-> <<>>, children |-> <<>>, span |-> span]

\* HtmlElement::with_children
with_children(self, children) == [self EXCEPT !.children = children]

TagHtml == <<"h", "t", "m", "l">>
TagHead == <<"h", "e", "a", "d">>
TagBody == <<"b", "o", "d", "y">>
TagTitle == <<"t", "i", "t", "l", "e">>
TagDiv == <<"d", "i", "v">>
TagP == <<"p">>
TagBr == <<"b", "r">>
TagEmpty == <<>>

(***************************************************************************)
(* Serializer: typst-html/src/encode.rs                                    *)
(***************************************************************************)
VoidTags ==
    { <<"a", "r", "e", "a">>,
      <<"b", "a", "s", "e">>,
      <<"b", "r">>,
      <<"c", "o", "l">>,
      <<"e", "m", "b", "e", "d">>,
      <<"h", "r">>,
      <<"i", "m", "g">>,
      <<"i", "n", "p", "u", "t">>,
      <<"l", "i", "n", "k">>,
      <<"m", "e", "t", "a">>,
      <<"p", "a", "r", "a", "m">>,
      <<"s", "o", "u", "r", "c", "e">>,
      <<"t", "r", "a", "c", "k">>,
      <<"w", "b", "r">> }

\* A plausible slip: `br` left out of the list.
is_void_without_br(tag) == tag \in VoidTags \ {TagBr}

is_void(tag) == tag \in VoidTags

\* A plausible slip: the `&` arm is missing, so `&` falls to the default arm.
write_char_amp_copied(w, c) ==
    CASE c = "<" -> w \o <<"&", "l", "t", ";">>
      [] c = ">" -> w \o <<"&", "g", "t", ";">>
      [] c = "'" -> w \o <<"&", "#", "3", "9", ";">>
      [] c = "\"" -> w \o <<"&", "q", "u", "o", "t", ";">>
      [] OTHER -> Append(w, c)

\* A plausible slip: the replacements of `<` and `>` are swapped.
write_char_lt_gt_swapped(w, c) ==
    CASE c = "<" -> w \o <<"&", "g", "t", ";">>
      [] c = ">" -> w \o <<"&", "l", "t", ";">>
      [] c = "&" -> w \o <<"&", "a", "m", "p", ";">>
      [] c = "'" -> w \o <<"&", "#", "3", "9", ";">>
      [] c = "\"" -> w \o <<"&", "q", "u", "o", "t", ";">>
      [] OTHER -> Append(w, c)

\* What write_text pushes for one character.
write_char(w, c) ==
    CASE c = "<" -> w \o <<"&", "l", "t", ";">>
      [] c = ">" -> w \o <<"&", "g", "t", ";">>
      [] c = "&" -> w \o <<"&", "a", "m", "p", ";">>
      [] c = "'" -> w \o <<"&", "#", "3", "9", ";">>
      [] c = "\"" -> w \o <<"&", "q", "u", "o", "t", ";">>
      [] OTHER -> Append(w, c)

RECURSIVE write_text_from(_, _, _)
write_text_from(w, text, i) ==
    IF i > Len(text) THEN w
    ELSE write_text_from(write_char(w, text[i]), text, i + 1)

\* for c in text.chars() { match c { ... } }
write_text(w, text) == write_text_from(w, text, 1)

\* `{value:?}` of a string: quoted, with `"` and `\` escaped by a backslash.
RECURSIVE escape_debug(_, _, _)
escape_debug(w, value, i) ==
    IF i > Len(value) THEN w
    ELSE escape_debug(
            IF value[i] \in {"\"", "\\"}
            THEN w \o <<"\\", value[i]>>
            ELSE Append(w, value[i]),
            value, i + 1)

fmt_debug(w, value) == Append(escape_debug(Append(w, "\""), value, 1), "\"")

\* for (key, value) in &element.attrs.0 { write!(w.buf, " {key}={value:?}") }
RECURSIVE write_attrs(_, _, _)
write_attrs(w, attrs, i) ==
    IF i > Len(attrs) THEN w
    ELSE write_attrs(
            fmt_debug((Append(w, " ") \o attrs[i][1]) \o <<"=">>, attrs[i][2]),
            attrs, i + 1)

RECURSIVE write_node(_, _)
RECURSIVE write_children(_, _, _)

\* A plausible slip: the children are written after the closing tag.
write_element_children_last(w, element) ==
    LET opened == Append(write_attrs(Append(w, "<") \o element.tag, element.attrs, 1), ">")
    IN  IF is_void(element.tag) THEN opened
        ELSE write_children(
                (opened \o <<"<", "/">> \o element.tag) \o <<">">>,
                element.children, 1)

write_element(w, element) ==
    LET opened == Append(write_attrs(Append(w, "<") \o element.tag, element.attrs, 1), ">")
    IN  IF is_void(element.tag) THEN opened
        ELSE (write_children(opened, element.children, 1) \o <<"<", "/">>
                \o element.tag) \o <<">">>

\* for node in &element.children { write_node(w, node) }
write_children(w, children, i) ==
    IF i > Len(children) THEN w
    ELSE write_children(write_node(w, children[i]), children, i + 1)

write_node(w, node) ==
    IF node.type = "Text" THEN write_text(w, node.text)
    ELSE write_element(w, node.element)

\* pub fn html(document)
html(doc) == write_element(<<>>, doc)

(***************************************************************************)
(* Root resolver: typst-html/src/lib.rs, root_element and below            *)
(***************************************************************************)
Ok(v) == [ok |-> TRUE, value |-> v]
Err(e) == [ok |-> FALSE, error |-> e]

\* bail!(elem.span, "`{}` element must be the only element in the document", elem.tag)
\* where HtmlTag displays as <tag>; the message's backquotes around {} are left
\* out of the string.
OnlyElementError(elem) ==
    [span |-> elem.span,
     message |-> "{} element must be the only element in the document",
     arg |-> (<<"<">> \o elem.tag) \o <<">">>]

\* std::mem::replace(elem, HtmlElement::new("", Span::detached())): the sequence
\* with slot i emptied.
taken(out, i) == [out EXCEPT ![i] = Element(HtmlElementNew(TagEmpty, Detached))]

\* A plausible slip: only `html` is rejected among several nodes, `body` is not.
RECURSIVE classify_from_body_allowed(_, _, _)
classify_from_body_allowed(out, len, i) ==
    IF i > Len(out) THEN Ok([kind |-> "Leafs", leafs |-> out])
    ELSE IF out[i].type # "Element" THEN classify_from_body_allowed(out, len, i + 1)
    ELSE LET elem == out[i].element
         IN  IF elem.tag = TagHtml /\ len = 1
                THEN Ok([kind |-> "Html", element |-> elem])
             ELSE IF elem.tag = TagBody /\ len = 1
                THEN Ok([kind |-> "Body", element |-> elem])
             ELSE IF elem.tag = TagHtml
                THEN Err(OnlyElementError(elem))
             ELSE classify_from_body_allowed(out, len, i + 1)

\* A plausible slip: the element is taken out of its slot before the match, so
\* every element passed over leaves the placeholder behind.
RECURSIVE classify_from_eager_take(_, _, _)
classify_from_eager_take(out, len, i) ==
    IF i > Len(out) THEN Ok([kind |-> "Leafs", leafs |-> out])
    ELSE IF out[i].type # "Element" THEN classify_from_eager_take(out, len, i + 1)
    ELSE LET elem == out[i].element
         IN  IF elem.tag = TagHtml /\ len = 1
                THEN Ok([kind |-> "Html", element |-> elem])
             ELSE IF elem.tag = TagBody /\ len = 1
                THEN Ok([kind |-> "Body", element |-> elem])
             ELSE IF elem.tag \in {TagHtml, TagBody}
                THEN Err(OnlyElementError(elem))
             ELSE classify_from_eager_take(taken(out, i), len, i + 1)

\* for node in &mut out { ... } from slot i on; len is the length taken
\* before the loop.
RECURSIVE classify_from(_, _, _)
classify_from(out, len, i) ==
    IF i > Len(out) THEN Ok([kind |-> "Leafs", leafs |-> out])
    ELSE IF out[i].type # "Element" THEN classify_from(out, len, i + 1)
    ELSE LET elem == out[i].element
         IN  IF elem.tag = TagHtml /\ len = 1
                THEN Ok([kind |-> "Html", element |-> elem])
             ELSE IF elem.tag = TagBody /\ len = 1
                THEN Ok([kind |-> "Body", element |-> elem])
             ELSE IF elem.tag \in {TagHtml, TagBody}
                THEN Err(OnlyElementError(elem))
             ELSE classify_from(out, len, i + 1)

classify_output(out) == classify_from(out, Len(out), 1)

head_element(docinfo) ==
    with_children(
        HtmlElementNew(TagHead, Detached),
        IF docinfo.title # None
        THEN <<Element(with_children(HtmlElementNew(TagTitle, Detached),
                                     <<Text(docinfo.title[1])>>))>>
        ELSE <<>>)

\* A plausible slip: the user's `html` element is wrapped like a body.
root_element_html_wrapped(out, docinfo) ==
    LET kind == classify_output(out)
    IN  IF ~kind.ok THEN kind
        ELSE LET body == IF kind.value.kind \in {"Html", "Body"} THEN kind.value.element
                         ELSE with_children(HtmlElementNew(TagBody, Detached),
                                            kind.value.leafs)
             IN  Ok(with_children(HtmlElementNew(TagHtml, Detached),
                                  <<Element(head_element(docinfo)), Element(body)>>))

\* A plausible slip: the user's `body` element is wrapped in a new body.
root_element_body_wrapped(out, docinfo) ==
    LET kind == classify_output(out)
    IN  IF ~kind.ok THEN kind
        ELSE IF kind.value.kind = "Html" THEN Ok(kind.value.element)
        ELSE LET body == IF kind.value.kind = "Body"
                         THEN with_children(HtmlElementNew(TagBody, Detached),
                                            <<Element(kind.value.element)>>)
                         ELSE with_children(HtmlElementNew(TagBody, Detached),
                                            kind.value.leafs)
             IN  Ok(with_children(HtmlElementNew(TagHtml, Detached),
                                  <<Element(head_element(docinfo)), Element(body)>>))

root_element(out, docinfo) ==
    LET kind == classify_output(out)
    IN  IF ~kind.ok THEN kind
        ELSE IF kind.value.kind = "Html" THEN Ok(kind.value.element)
        ELSE LET body == IF kind.value.kind = "Body" THEN kind.value.element
                         ELSE with_children(HtmlElementNew(TagBody, Detached),
                                            kind.value.leafs)
             IN  Ok(with_children(HtmlElementNew(TagHtml, Detached),
                                  <<Element(head_element(docinfo)), Element(body)>>))

(***************************************************************************)
(* Node builder: typst-html/src/lib.rs, html_document to handle            *)
(*                                                                         *)
(* A content item is a record with its kind, its span and the fields of    *)
(* its element with the styles already applied.  A content that is         *)
(* realized (a document, the body of an HTML element) is a record of its   *)
(* span and of the children the external realization yields for it.  The   *)
(* engine is the record of its sink, of the calls made to                  *)
(* routines.realize and of the calls made to locator.next; the route is    *)
(* the length of the engine's route.                                       *)
(***************************************************************************)
\* Route::MAX_HTML_DEPTH, scaled down.
MaxHtmlDepth == 1

\* Route::extend(outer): one longer than the outer route.
RouteExtend(outer) == outer + 1

\* Route::unnested: the length is reset.
RouteUnnested(r) == 0

\* Route::check_html_depth
check_html_depth(r) ==
    IF r <= MaxHtmlDepth THEN Ok(TRUE) ELSE Err("RecursionLimitExceeded")

\* Sink::warn
SinkWarn(eng, warning) == [eng EXCEPT !.sink = Append(@, warning)]

\* SplitLocator::next(&span): a child identity scope is split off; the call is
\* recorded with the span it is keyed by.
LocatorNext(eng, span) == [eng EXCEPT !.scopes = Append(@, span)]

\* (engine.routines.realize)(kind, &mut engine, ..., content, styles): the
\* call is recorded with the route of the engine that makes it.
realize(kind, eng, r, body) ==
    [eng |-> [eng EXCEPT !.realized =
                Append(@, [kind |-> kind, span |-> body.span, depth |-> r])],
     children |-> body.children]

\* warning!(child.span(), "{} was ignored during HTML export", child.elem().name())
IgnoredWarning(child) ==
    [span |-> child.span,
     message |-> "{} was ignored during HTML export",
     arg |-> child.name]

\* The result of a step of the builder: the engine as the step left it, and
\* the nodes or the error.
BuildOk(eng, nodes) == [ok |-> TRUE, eng |-> eng, value |-> nodes]
BuildErr(eng, error) == [ok |-> FALSE, eng |-> eng, error |-> error]

RECURSIVE handle(_, _, _, _)
RECURSIVE handle_list_from(_, _, _, _, _)

handle_list(eng, r, children) == handle_list_from(eng, r, children, 1, <<>>)

\* A plausible slip: the depth is not checked.
html_fragment_impl_unchecked(eng, outer, body) ==
    LET r == RouteExtend(outer)
        realization == realize("HtmlFragment", eng, r, body)
    IN  handle_list(realization.eng, r, realization.children)

\* html_fragment and html_fragment_impl: `outer` is the route of the calling
\* engine.
html_fragment_impl(eng, outer, body) ==
    LET r == RouteExtend(outer)
        checked == check_html_depth(r)
    IN  IF ~checked.ok
        THEN BuildErr(eng, [span |-> body.span, message |-> checked.error])
        ELSE LET realization == realize("HtmlFragment", eng, r, body)
             IN  handle_list(realization.eng, r, realization.children)

\* for (child, styles) in children { handle(engine, child, locator, styles, &mut output)?; }
handle_list_from(eng, r, children, i, out) ==
    IF i > Len(children) THEN BuildOk(eng, out)
    ELSE LET handled == handle(eng, r, children[i], out)
         IN  IF ~handled.ok THEN handled
             ELSE handle_list_from(handled.eng, r, children, i + 1, handled.value)

\* A plausible slip: content that is not supported leaves an empty text node.
handle_unsupported_pushes(eng, r, child, out) ==
    IF child.kind = "TagElem" THEN BuildOk(eng, out)
    ELSE IF child.kind = "HtmlElem" THEN
        LET fragment == IF child.body # None
                        THEN html_fragment_impl(LocatorNext(eng, child.span), r, child.body[1])
                        ELSE BuildOk(eng, <<>>)
        IN  IF ~fragment.ok THEN fragment
            ELSE BuildOk(fragment.eng,
                    Append(out, Element([tag |-> child.tag, attrs |-> child.attrs,
                                         children |-> fragment.value,
                                         span |-> child.span])))
    ELSE IF child.kind = "ParElem" THEN
        LET list == handle_list(eng, r, child.children)
        IN  IF ~list.ok THEN list
            ELSE BuildOk(list.eng,
                    Append(out, Element(with_children(HtmlElementNew(TagP, child.span),
                                                      list.value))))
    ELSE IF child.kind = "SpaceElem" THEN BuildOk(eng, Append(out, Text(<<" ">>)))
    ELSE IF child.kind = "TextElem" THEN BuildOk(eng, Append(out, Text(child.text)))
    ELSE IF child.kind = "LinebreakElem"
        THEN BuildOk(eng, Append(out, Element(HtmlElementNew(TagBr, child.span))))
    ELSE IF child.kind = "SmartQuoteElem"
        THEN BuildOk(eng, Append(out, Text(IF child.double THEN <<"\"">> ELSE <<"'">>)))
    ELSE BuildOk(SinkWarn(eng, IgnoredWarning(child)), Append(out, Text(<<>>)))

\* A plausible slip: the children of a paragraph are realized as a fragment of
\* their own, like the body of an HTML element.
handle_par_as_fragment(eng, r, child, out) ==
    IF child.kind = "TagElem" THEN BuildOk(eng, out)
    ELSE IF child.kind = "HtmlElem" THEN
        LET fragment == IF child.body # None
                        THEN html_fragment_impl(LocatorNext(eng, child.span), r, child.body[1])
                        ELSE BuildOk(eng, <<>>)
        IN  IF ~fragment.ok THEN fragment
            ELSE BuildOk(fragment.eng,
                    Append(out, Element([tag |-> child.tag, attrs |-> child.attrs,
                                         children |-> fragment.value,
                                         span |-> child.span])))
    ELSE IF child.kind = "ParElem" THEN
        LET list == html_fragment_impl(LocatorNext(eng, child.span), r,
                                       [span |-> child.span, children |-> child.children])
        IN  IF ~list.ok THEN list
            ELSE BuildOk(list.eng,
                    Append(out, Element(with_children(HtmlElementNew(TagP, child.span),
                                                      list.value))))
    ELSE IF child.kind = "SpaceElem" THEN BuildOk(eng, Append(out, Text(<<" ">>)))
    ELSE IF child.kind = "TextElem" THEN BuildOk(eng, Append(out, Text(child.text)))
    ELSE IF child.kind = "LinebreakElem"
        THEN BuildOk(eng, Append(out, Element(HtmlElementNew(TagBr, child.span))))
    ELSE IF child.kind = "SmartQuoteElem"
        THEN BuildOk(eng, Append(out, Text(IF child.double THEN <<"\"">> ELSE <<"'">>)))
    ELSE BuildOk(SinkWarn(eng, IgnoredWarning(child)), out)

\* fn handle: the if/else chain over the kind of the child.
handle(eng, r, child, out) ==
    IF child.kind = "TagElem" THEN BuildOk(eng, out)
    ELSE IF child.kind = "HtmlElem" THEN
        LET fragment == IF child.body # None
                        THEN html_fragment_impl(LocatorNext(eng, child.span), r, child.body[1])
                        ELSE BuildOk(eng, <<>>)
        IN  IF ~fragment.ok THEN fragment
            ELSE BuildOk(fragment.eng,
                    Append(out, Element([tag |-> child.tag, attrs |-> child.attrs,
                                         children |-> fragment.value,
                                         span |-> child.span])))
    ELSE IF child.kind = "ParElem" THEN
        LET list == handle_list(eng, r, child.children)
        IN  IF ~list.ok THEN list
            ELSE BuildOk(list.eng,
                    Append(out, Element(with_children(HtmlElementNew(TagP, child.span),
                                                      list.value))))
    ELSE IF child.kind = "SpaceElem" THEN BuildOk(eng, Append(out, Text(<<" ">>)))
    ELSE IF child.kind = "TextElem" THEN BuildOk(eng, Append(out, Text(child.text)))
    ELSE IF child.kind = "LinebreakElem"
        THEN BuildOk(eng, Append(out, Element(HtmlElementNew(TagBr, child.span))))
    ELSE IF child.kind = "SmartQuoteElem"
        THEN BuildOk(eng, Append(out, Text(IF child.double THEN <<"\"">> ELSE <<"'">>)))
    ELSE BuildOk(SinkWarn(eng, IgnoredWarning(child)), out)

\* html_document and html_document_impl: `outer` is the route of the calling
\* engine, docinfo the DocumentInfo the realization fills in.
html_document_impl(eng, outer, body, docinfo) ==
    LET r == RouteUnnested(RouteExtend(outer))
        realization == realize("HtmlDocument", eng, r, body)
        list == handle_list(realization.eng, r, realization.children)
    IN  IF ~list.ok THEN list
        ELSE LET root == root_element(list.value, docinfo)
             IN  IF ~root.ok THEN BuildErr(list.eng, root.error)
                 ELSE BuildOk(list.eng, [info |-> docinfo, root |-> root.value])

(***************************************************************************)
(* SpecEncode: html(document) on bounded documents.                        *)
(***************************************************************************)
\* The characters texts are drawn from: the five that are substituted, and
\* two that are not (`;` also ends every replacement).
TextChars == {"<", ">", "&", "'", "\"", "a", ";"}

RECURSIVE TextsOfLen(_)
TextsOfLen(n) ==
    IF n = 0 THEN {<<>>}
    ELSE {Append(t, c) : t \in TextsOfLen(n - 1), c \in TextChars}

AllTexts == UNION {TextsOfLen(n) : n \in 0..MaxTextLen}

AttrId == <<"i", "d">>
EncAttrs == {<<>>, << <<AttrId, <<"a", "\"">>>> >>}
EncTags == {TagDiv, TagP, TagBr}
EncTexts == {<<"a", "<">>}

RECURSIVE NodesOfSize(_)
RECURSIVE ForestsOfSize(_)
\* The DOM nodes made of exactly n elements and texts.
NodesOfSize(n) ==
    IF n = 0 THEN {}
    ELSE (IF n = 1 THEN {Text(t) : t \in EncTexts} ELSE {})
         \cup {Element([tag |-> tag, attrs |-> attrs, children |-> children, span |-> 1]) :
                    tag \in EncTags, attrs \in EncAttrs, children \in ForestsOfSize(n - 1)}

\* The node sequences made of exactly k elements and texts.
ForestsOfSize(k) ==
    IF k = 0 THEN {<<>>}
    ELSE UNION {{<<x>> \o f : x \in NodesOfSize(j), f \in ForestsOfSize(k - j)} :
                    j \in 1..k}

\* Documents: every tree of at most MaxDomNodes nodes with an element at the
\* root, every text on its own in a `p`, and every void tag with and without
\* children.
TreeDocuments ==
    {n.element : n \in {m \in UNION {NodesOfSize(k) : k \in 1..MaxDomNodes} :
                            m.type = "Element"}}

TextDocuments ==
    {with_children(HtmlElementNew(TagP, 1), <<Text(t)>>) : t \in AllTexts}

VoidDocuments ==
    {[tag |-> tag, attrs |-> attrs, children |-> children, span |-> 1] :
        tag \in VoidTags, attrs \in EncAttrs,
        children \in {<<>>, <<Text(<<"a">>)>>,
                      <<Element(HtmlElementNew(TagDiv, 1)), Text(<<"a">>)>>}}

EncodeDocuments == TreeDocuments \cup TextDocuments \cup VoidDocuments

InitEncode ==
    /\ pc = "start"
    /\ document \in EncodeDocuments
    /\ buf = <<>>
    /\ content = <<>>
    /\ route = 0
    /\ info = [title |-> None]
    /\ output = <<>>
    /\ sink = <<>>
    /\ realized = <<>>
    /\ scopes = <<>>
    /\ result = None

\* let mut w = Writer { buf: String::new() }; write_element(&mut w, &document.root); w.buf
Html ==
    /\ pc = "start"
    /\ pc' = "done"
    /\ buf' = html(document)
    /\ UNCHANGED <<content, route, info, output, sink, realized, scopes, result, document>>

NextEncode == Html

SpecEncode == InitEncode /\ [][NextEncode]_vars

(***************************************************************************)
(* Claims about the serializer, checked under SpecEncode.                  *)
(***************************************************************************)
\* The void tags as the specification lists them.
ClaimedVoidTags ==
    { <<"a", "r", "e", "a">>, <<"b", "a", "s", "e">>, <<"b", "r">>,
      <<"c", "o", "l">>, <<"e", "m", "b", "e", "d">>, <<"h", "r">>,
      <<"i", "m", "g">>, <<"i", "n", "p", "u", "t">>, <<"l", "i", "n", "k">>,
      <<"m", "e", "t", "a">>, <<"p", "a", "r", "a", "m">>,
      <<"s", "o", "u", "r", "c", "e">>, <<"t", "r", "a", "c", "k">>,
      <<"w", "b", "r">> }

\* The five substitutions as the specification lists them.
SubstitutedChars == {"<", ">", "&", "'", "\""}

Image(c) ==
    CASE c = "<" -> <<"&", "l", "t", ";">>
      [] c = ">" -> <<"&", "g", "t", ";">>
      [] c = "&" -> <<"&", "a", "m", "p", ";">>
      [] c = "'" -> <<"&", "#", "3", "9", ";">>
      [] c = "\"" -> <<"&", "q", "u", "o", "t", ";">>
      [] OTHER -> <<c>>

RECURSIVE Images(_)
Images(text) == IF text = <<>> THEN <<>> ELSE Image(Head(text)) \o Images(Tail(text))

HasSubstituted(text) == \E i \in 1..Len(text) : text[i] \in SubstitutedChars

NumSubstituted(text) == Cardinality({i \in 1..Len(text) : text[i] \in SubstitutedChars})

OpenTag(e) == (<<"<">> \o e.tag) \o write_attrs(<<>>, e.attrs, 1) \o <<">">>

CloseTag(e) == (<<"<", "/">> \o e.tag) \o <<">">>

\* The serialization the specification describes: the opening tag, then for a
\* non-void element the serializations of the children in order and the
\* closing tag.
RECURSIVE Serialized(_)
RECURSIVE SerializedAll(_)
Serialized(node) ==
    IF node.type = "Text" THEN Images(node.text)
    ELSE IF node.element.tag \in ClaimedVoidTags THEN OpenTag(node.element)
    ELSE (OpenTag(node.element) \o SerializedAll(node.element.children))
            \o CloseTag(node.element)

SerializedAll(nodes) ==
    IF nodes = <<>> THEN <<>> ELSE Serialized(Head(nodes)) \o SerializedAll(Tail(nodes))

\* The first index from i on at which b holds one of chars, Len(b) + 1 if none.
FirstIndex(b, i, chars) ==
    IF \E j \in i..Len(b) : b[j] \in chars
    THEN CHOOSE j \in i..Len(b) : b[j] \in chars /\ \A k \in i..(j - 1) : b[k] \notin chars
    ELSE Len(b) + 1

\* A scan of the output as a reader of HTML tags makes it: an opening tag of a
\* non-void element is pushed, a closing tag must name the innermost open
\* element, and nothing is left open at the end.  A tag ends at the first `>`:
\* the tags and attributes of the documents drawn here hold none, and how
\* attributes are quoted is not part of what is stated.
RECURSIVE TagsMatch(_, _, _)
TagsMatch(b, i, open) ==
    IF i > Len(b) THEN open = <<>>
    ELSE IF b[i] # "<" THEN TagsMatch(b, i + 1, open)
    ELSE LET close == FirstIndex(b, i, {">"})
             closing == i < Len(b) /\ b[i + 1] = "/"
             name == IF closing THEN SubSeq(b, i + 2, close - 1)
                     ELSE SubSeq(b, i + 1, FirstIndex(b, i, {" ", ">"}) - 1)
         IN  /\ close <= Len(b)
             /\ IF closing
                THEN /\ name \notin ClaimedVoidTags
                     /\ open # <<>>
                     /\ open[Len(open)] = name
                     /\ TagsMatch(b, close + 1, SubSeq(open, 1, Len(open) - 1))
                ELSE TagsMatch(b, close + 1,
                        IF name \in ClaimedVoidTags THEN open ELSE Append(open, name))

AllText(nodes) == \A i \in 1..Len(nodes) : nodes[i].type = "Text"

RECURSIVE TextsOf(_)
TextsOf(nodes) == IF nodes = <<>> THEN <<>> ELSE Head(nodes).text \o TextsOf(Tail(nodes))

\* C5: the output of the serializer is well-nested: it is the opening tag,
\* then, unless the element is void, the serializations of its children in
\* order and exactly one closing tag of the same tag; read as a sequence of
\* tags, every closing tag closes the innermost open element and no void
\* element is closed.
C5_WellNested ==
    pc = "done" =>
        /\ buf = Serialized(Element(document))
        /\ TagsMatch(buf, 1, <<>>)

C5_Witness ==
    /\ pc = "done"
    /\ ~is_void(document.tag)
    /\ Len(document.children) = 2
    /\ document.children[1].type = "Text"
    /\ document.children[2].type = "Element"
    /\ buf # <<>>

\* C6: a text node is written as the in-order concatenation of the images of
\* its characters: the five substituted characters by their replacements,
\* every other character by itself.
C6_TextEscaped ==
    (pc = "done" /\ document.tag \notin ClaimedVoidTags /\ AllText(document.children)) =>
        buf = (OpenTag(document) \o Images(TextsOf(document.children)))
                \o CloseTag(document)

C6_Witness ==
    /\ pc = "done"
    /\ document.tag = TagP
    /\ document.children = <<Text(<<"<", "a", "'">>)>>
    /\ buf = <<"<", "p", ">", "&", "l", "t", ";", "a", "&", "#", "3", "9", ";",
               "<", "/", "p", ">">>

\* The escaped text of a document that is one text in an element without
\* attributes.
EscapedOnce == SubSeq(buf, Len(OpenTag(document)) + 1, Len(buf) - Len(CloseTag(document)))

OneText ==
    /\ document.tag \notin ClaimedVoidTags
    /\ Len(document.children) = 1
    /\ document.children[1].type = "Text"

\* C7: escaping is not idempotent: escaping the escaped text again differs from
\* it whenever the text holds one of the five substituted characters (each `&`
\* the first pass wrote grows by four characters), and the escaped text equals
\* the text exactly when the text holds none of them.
C7_NotIdempotent ==
    (pc = "done" /\ OneText) =>
        LET t == document.children[1].text
            twice == write_text(<<>>, EscapedOnce)
        IN  /\ HasSubstituted(t) => twice # EscapedOnce
            /\ Len(twice) = Len(EscapedOnce) + 4 * NumSubstituted(t)
            /\ (EscapedOnce = t) <=> ~HasSubstituted(t)

C7_Witness ==
    /\ pc = "done"
    /\ OneText
    /\ document.children[1].text = <<"a", "<">>
    /\ EscapedOnce = <<"a", "&", "l", "t", ";">>
    /\ write_text(<<>>, EscapedOnce) = <<"a", "&", "a", "m", "p", ";", "l", "t", ";">>

\* What a child contributes when a void element contributes its opening tag
\* only.
RECURSIVE VoidsCut(_)
VoidsCut(nodes) ==
    IF nodes = <<>> THEN <<>>
    ELSE (IF Head(nodes).type = "Element" /\ Head(nodes).element.tag \in ClaimedVoidTags
          THEN OpenTag(Head(nodes).element)
          ELSE write_node(<<>>, Head(nodes))) \o VoidsCut(Tail(nodes))

\* C8: an element with a void tag is written as its opening tag with its
\* attributes and nothing else, whatever its children are, at the root and as
\* a child.
C8_VoidStops ==
    pc = "done" =>
        IF document.tag \in ClaimedVoidTags
        THEN buf = OpenTag(document)
        ELSE buf = (OpenTag(document) \o VoidsCut(document.children)) \o CloseTag(document)

C8_Witness ==
    /\ pc = "done"
    /\ document.tag = TagBr
    /\ document.attrs # <<>>
    /\ Len(document.children) = 2
    /\ buf = <<"<", "b", "r", " ", "i", "d", "=", "\"", "a", "\\", "\"", "\"", ">">>

(***************************************************************************)
(* SpecRoot: root_element(output, info) on bounded top-level sequences.    *)
(***************************************************************************)
RootTitle == <<"R">>

\* The top-level nodes: a text, two `html` and two `body` elements that differ
\* in span, attributes and children, and a `div` that holds a `body` below
\* the top level.
TopNodes ==
    { Text(<<"a">>),
      Element([tag |-> TagHtml, attrs |-> << <<AttrId, <<"x">>>> >>,
               children |-> <<Text(<<"a">>)>>, span |-> 1]),
      Element([tag |-> TagBody, attrs |-> << <<AttrId, <<"y">>>> >>,
               children |-> <<Element(HtmlElementNew(TagBr, 6)), Text(<<"a">>)>>,
               span |-> 2]),
      Element([tag |-> TagDiv, attrs |-> <<>>,
               children |-> <<Element(HtmlElementNew(TagBody, 7))>>, span |-> 3]),
      Element(HtmlElementNew(TagHtml, 4)),
      Element(HtmlElementNew(TagBody, 5)) }

RECURSIVE TopSequences(_)
TopSequences(n) ==
    IF n = 0 THEN {<<>>}
    ELSE {Append(q, x) : q \in TopSequences(n - 1), x \in TopNodes}

InitRoot ==
    /\ pc = "start"
    /\ output \in UNION {TopSequences(n) : n \in 0..MaxTopLen}
    /\ info \in {[title |-> None], [title |-> Some(RootTitle)]}
    /\ result = None
    /\ content = <<>>
    /\ route = 0
    /\ sink = <<>>
    /\ realized = <<>>
    /\ scopes = <<>>
    /\ document = None
    /\ buf = <<>>

\* let root = root_element(output, &info)?
RootElement ==
    /\ pc = "start"
    /\ pc' = "done"
    /\ result' = root_element(output, info)
    /\ UNCHANGED <<content, route, info, output, sink, realized, scopes, document, buf>>

NextRoot == RootElement

SpecRoot == InitRoot /\ [][NextRoot]_vars

(***************************************************************************)
(* Claims about the root resolver, checked under SpecRoot.                 *)
(***************************************************************************)
IsRootTag(node) == node.type = "Element" /\ node.element.tag \in {TagHtml, TagBody}

HasRootTag(nodes) == \E i \in 1..Len(nodes) : IsRootTag(nodes[i])

FirstRootTag(nodes) ==
    nodes[CHOOSE i \in 1..Len(nodes) :
            IsRootTag(nodes[i]) /\ \A k \in 1..(i - 1) : ~IsRootTag(nodes[k])].element

\* The head the resolver generates: empty, or one `title` holding the title.
IsFreshHead(node) ==
    /\ node.type = "Element"
    /\ node.element.tag = TagHead
    /\ node.element.attrs = <<>>
    /\ IF info.title = None THEN node.element.children = <<>>
       ELSE /\ Len(node.element.children) = 1
            /\ node.element.children[1].type = "Element"
            /\ node.element.children[1].element.tag = TagTitle
            /\ node.element.children[1].element.children = <<Text(info.title[1])>>

\* C1: more than one top-level node, one of them an `html` or `body` element:
\* resolution fails, returns no root, and the error names the tag and carries
\* the span of the first such element.
C1_Conflict ==
    (pc = "done" /\ Len(output) > 1 /\ HasRootTag(output)) =>
        /\ ~result.ok
        /\ "value" \notin DOMAIN result
        /\ result.error.message = "{} element must be the only element in the document"
        /\ result.error.arg = (<<"<">> \o FirstRootTag(output).tag) \o <<">">>
        /\ result.error.span = FirstRootTag(output).span

C1_Witness ==
    /\ pc = "done"
    /\ Len(output) = 3
    /\ output[1].type = "Text"
    /\ IsRootTag(output[2]) /\ output[2].element.tag = TagBody
    /\ IsRootTag(output[3]) /\ output[3].element.tag = TagHtml
    /\ ~result.ok
    /\ result.error.span = output[2].element.span

\* C2: exactly one node, an `html` element: it is returned unchanged, whatever
\* the title is.
C2_HtmlAdopted ==
    (pc = "done" /\ Len(output) = 1 /\ output[1].type = "Element"
        /\ output[1].element.tag = TagHtml) =>
        /\ result.ok
        /\ result.value = output[1].element

C2_Witness ==
    /\ pc = "done"
    /\ Len(output) = 1
    /\ output[1].type = "Element"
    /\ output[1].element.tag = TagHtml
    /\ output[1].element.children # <<>>
    /\ info.title # None
    /\ result.ok

\* C3: exactly one node, a `body` element: the result is an `html` element
\* whose children are a generated head and the given body, unchanged.
C3_BodyAdopted ==
    (pc = "done" /\ Len(output) = 1 /\ output[1].type = "Element"
        /\ output[1].element.tag = TagBody) =>
        /\ result.ok
        /\ result.value.tag = TagHtml
        /\ result.value.attrs = <<>>
        /\ Len(result.value.children) = 2
        /\ IsFreshHead(result.value.children[1])
        /\ result.value.children[2] = output[1]

C3_Witness ==
    /\ pc = "done"
    /\ Len(output) = 1
    /\ output[1].type = "Element"
    /\ output[1].element.tag = TagBody
    /\ output[1].element.attrs # <<>>
    /\ output[1].element.children # <<>>
    /\ result.ok
    /\ result.value.tag = TagHtml

\* C4: no top-level `html` or `body` element: the result is `html` with
\* children head and body, where body has no attributes and its children are
\* the input sequence.
C4_LeafsWrapped ==
    (pc = "done" /\ ~HasRootTag(output)) =>
        /\ result.ok
        /\ result.value.tag = TagHtml
        /\ Len(result.value.children) = 2
        /\ IsFreshHead(result.value.children[1])
        /\ result.value.children[2].type = "Element"
        /\ result.value.children[2].element.tag = TagBody
        /\ result.value.children[2].element.attrs = <<>>
        /\ result.value.children[2].element.children = output

C4_Witness ==
    /\ pc = "done"
    /\ Len(output) = 3
    /\ ~HasRootTag(output)
    /\ output[1].type = "Text"
    /\ output[2].type = "Element"
    /\ result.ok
    /\ result.value.children[2].element.children = output

C4_WitnessEmpty ==
    /\ pc = "done"
    /\ output = <<>>
    /\ result.ok

(***************************************************************************)
(* SpecBuild: html_document and html_fragment on bounded content.          *)
(***************************************************************************)
\* The items without children: one of every kind handle names, an HTML
\* element without a body, and a heading, which handle does not name.
LeafItems ==
    { [kind |-> "TagElem", span |-> 0],
      [kind |-> "HtmlElem", span |-> 0, tag |-> TagDiv,
       attrs |-> << <<AttrId, <<"x">>>> >>, body |-> None],
      [kind |-> "SpaceElem", span |-> 0],
      [kind |-> "TextElem", span |-> 0, text |-> <<"a">>],
      [kind |-> "LinebreakElem", span |-> 0],
      [kind |-> "SmartQuoteElem", span |-> 0, double |-> TRUE],
      [kind |-> "SmartQuoteElem", span |-> 0, double |-> FALSE],
      [kind |-> "HeadingElem", span |-> 0, name |-> "heading"] }

RECURSIVE ItemsOfSize(_)
RECURSIVE ListsOfSize(_)
\* The content items made of exactly n items.
ItemsOfSize(n) ==
    IF n = 0 THEN {}
    ELSE (IF n = 1 THEN LeafItems ELSE {})
         \cup {[kind |-> "HtmlElem", span |-> 0, tag |-> TagDiv, attrs |-> <<>>,
                body |-> Some([span |-> 0, children |-> children])] :
                    children \in ListsOfSize(n - 1)}
         \cup {[kind |-> "ParElem", span |-> 0, children |-> children] :
                    children \in ListsOfSize(n - 1)}

\* The item sequences made of exactly k items.
ListsOfSize(k) ==
    IF k = 0 THEN {<<>>}
    ELSE UNION {{<<x>> \o rest : x \in ItemsOfSize(j), rest \in ListsOfSize(k - j)} :
                    j \in 1..k}

\* Spans: every item and every body gets the number of its place in the
\* source, counted in pre-order from `next`.  The result is the pair of the
\* numbered sequence and the next free number.
RECURSIVE Spanned(_, _)
Spanned(children, next) ==
    IF children = <<>> THEN <<children, next>>
    ELSE LET item == Head(children)
             first ==
                IF item.kind = "HtmlElem" /\ item.body # None
                THEN LET inner == Spanned(item.body[1].children, next + 2)
                     IN  <<[item EXCEPT !.span = next,
                                        !.body = Some([span |-> next + 1,
                                                       children |-> inner[1]])],
                           inner[2]>>
                ELSE IF item.kind = "ParElem"
                THEN LET inner == Spanned(item.children, next + 1)
                     IN  <<[item EXCEPT !.span = next, !.children = inner[1]], inner[2]>>
                ELSE <<[item EXCEPT !.span = next], next + 1>>
             rest == Spanned(Tail(children), first[2])
         IN  <<<<first[1]>> \o rest[1], rest[2]>>

Contents ==
    {[span |-> 1, children |-> Spanned(children, 2)[1]] :
        children \in UNION {ListsOfSize(k) : k \in 0..MaxContentSize}}

InitBuild ==
    /\ pc = "start"
    /\ content \in Contents
    /\ route \in 0..MaxHtmlDepth
    /\ info = [title |-> Some(RootTitle)]
    /\ sink = <<>>
    /\ realized = <<>>
    /\ scopes = <<>>
    /\ result = None
    /\ output = <<>>
    /\ document = None
    /\ buf = <<>>

Returned(r) == IF r.ok THEN Ok(r.value) ELSE Err(r.error)

\* pub fn html_document, called by an engine whose route has length `route`.
HtmlDocument ==
    /\ pc = "start"
    /\ pc' = "document"
    /\ LET r == html_document_impl([sink |-> sink, realized |-> realized, scopes |-> scopes],
                                   route, content, info)
       IN  /\ sink' = r.eng.sink
           /\ realized' = r.eng.realized
           /\ scopes' = r.eng.scopes
           /\ result' = Returned(r)
    /\ UNCHANGED <<content, route, info, output, document, buf>>

\* pub fn html_fragment, called by an engine whose route has length `route`.
HtmlFragment ==
    /\ pc = "start"
    /\ pc' = "fragment"
    /\ LET r == html_fragment_impl([sink |-> sink, realized |-> realized, scopes |-> scopes],
                                   route, content)
       IN  /\ sink' = r.eng.sink
           /\ realized' = r.eng.realized
           /\ scopes' = r.eng.scopes
           /\ result' = Returned(r)
    /\ UNCHANGED <<content, route, info, output, document, buf>>

NextBuild == HtmlDocument \/ HtmlFragment

SpecBuild == InitBuild /\ [][NextBuild]_vars

(***************************************************************************)
(* Claims about the node builder, checked under SpecBuild.                 *)
(***************************************************************************)
\* The closed dispatch set of the specification.
DispatchKinds ==
    {"TagElem", "HtmlElem", "ParElem", "SpaceElem", "TextElem", "LinebreakElem",
     "SmartQuoteElem"}

\* The warnings due for the items outside the dispatch set, in pre-order.
RECURSIVE IgnoredIn(_)
IgnoredIn(children) ==
    IF children = <<>> THEN <<>>
    ELSE LET item == Head(children)
             own == IF item.kind \notin DispatchKinds
                    THEN <<[span |-> item.span,
                            message |-> "{} was ignored during HTML export",
                            arg |-> item.name]>>
                    ELSE IF item.kind = "HtmlElem" /\ item.body # None
                    THEN IgnoredIn(item.body[1].children)
                    ELSE IF item.kind = "ParElem" THEN IgnoredIn(item.children)
                    ELSE <<>>
         IN  own \o IgnoredIn(Tail(children))

\* The content without the items outside the dispatch set.
RECURSIVE Supported(_)
Supported(children) ==
    IF children = <<>> THEN <<>>
    ELSE LET item == Head(children)
             kept == IF item.kind \notin DispatchKinds THEN <<>>
                     ELSE IF item.kind = "HtmlElem" /\ item.body # None
                     THEN <<[item EXCEPT !.body =
                                Some([item.body[1] EXCEPT !.children = Supported(@)])]>>
                     ELSE IF item.kind = "ParElem"
                     THEN <<[item EXCEPT !.children = Supported(@)]>>
                     ELSE <<item>>
         IN  kept \o Supported(Tail(children))

\* What the operation that ran returns for the content without them.
OfSupported ==
    LET eng == [sink |-> <<>>, realized |-> <<>>, scopes |-> <<>>]
        body == [content EXCEPT !.children = Supported(@)]
    IN  Returned(IF pc = "document" THEN html_document_impl(eng, route, body, info)
                 ELSE html_fragment_impl(eng, route, body))

IsBefore(w) == result.ok \/ w.span < result.error.span

\* C9: every item outside the dispatch set that the builder comes to adds
\* exactly one warning with its span and kind to the sink, in order, and
\* nothing else: the operation returns what it returns for the content without
\* these items, so no node stands for them, the items after them are
\* converted and the export does not fail because of them.
C9_UnsupportedIgnored ==
    pc # "start" =>
        /\ result = OfSupported
        /\ sink = SelectSeq(IgnoredIn(content.children), IsBefore)

C9_Witness ==
    /\ pc = "document"
    /\ Len(content.children) = 3
    /\ content.children[1].kind = "TextElem"
    /\ content.children[2].kind = "HeadingElem"
    /\ content.children[3].kind = "LinebreakElem"
    /\ result.ok
    /\ sink = <<[span |-> content.children[2].span,
                 message |-> "{} was ignored during HTML export",
                 arg |-> "heading"]>>
    /\ result.value.root.children[2].element.children
        = <<Text(<<"a">>), Element(HtmlElementNew(TagBr, content.children[3].span))>>

C9_WitnessNested ==
    /\ pc = "document"
    /\ Len(content.children) = 1
    /\ content.children[1].kind = "ParElem"
    /\ Len(content.children[1].children) = 2
    /\ content.children[1].children[1].kind = "HeadingElem"
    /\ content.children[1].children[2].kind = "HeadingElem"
    /\ Len(sink) = 2
    /\ result.ok

\* The fragment realizations the content asks for, in pre-order, each with its
\* nesting depth; `depth` is the depth of the realization that holds children.
RECURSIVE Fragments(_, _)
Fragments(children, depth) ==
    IF children = <<>> THEN <<>>
    ELSE LET item == Head(children)
             own == IF item.kind = "HtmlElem" /\ item.body # None
                    THEN <<[kind |-> "HtmlFragment", span |-> item.body[1].span,
                            depth |-> depth + 1]>>
                         \o Fragments(item.body[1].children, depth + 1)
                    ELSE IF item.kind = "ParElem" THEN Fragments(item.children, depth)
                    ELSE <<>>
         IN  own \o Fragments(Tail(children), depth)

\* All realizations the operation that ran asks for: the document at depth
\* zero, a fragment one deeper than its caller.
Realizations ==
    IF pc = "document"
    THEN <<[kind |-> "HtmlDocument", span |-> content.span, depth |-> 0]>>
            \o Fragments(content.children, 0)
    ELSE <<[kind |-> "HtmlFragment", span |-> content.span, depth |-> route + 1]>>
            \o Fragments(content.children, route + 1)

TooDeep(f) == f.depth > MaxHtmlDepth

WithinDepth(f) == f.depth <= MaxHtmlDepth

\* C10: the realizations made are exactly those asked for before the first one
\* nested deeper than the maximum, each at its nesting depth, the document at
\* depth zero; if there is such a one, nothing is realized from it on and the
\* operation returns the recursion-limit error with the span of its content,
\* otherwise no such error is returned.
C10_DepthLimit ==
    pc # "start" =>
        LET deep == SelectSeq(Realizations, TooDeep)
        IN  IF deep # <<>>
            THEN /\ result = Err([span |-> deep[1].span,
                                  message |-> "RecursionLimitExceeded"])
                 /\ \E n \in 0..(Len(Realizations) - 1) :
                        /\ realized = SubSeq(Realizations, 1, n)
                        /\ Realizations[n + 1] = deep[1]
                 /\ \A i \in 1..Len(realized) : WithinDepth(realized[i])
            ELSE /\ result.ok
                 /\ realized = Realizations

C10_Witness ==
    /\ pc = "document"
    /\ Len(content.children) = 2
    /\ content.children[1].kind = "HtmlElem"
    /\ content.children[1].body # None
    /\ Len(content.children[1].body[1].children) = 1
    /\ content.children[1].body[1].children[1].kind = "HtmlElem"
    /\ content.children[1].body[1].children[1].body # None
    /\ content.children[2].kind = "TextElem"
    /\ ~result.ok
    /\ result.error.message = "RecursionLimitExceeded"
    /\ result.error.span = content.children[1].body[1].children[1].body[1].span
    /\ Len(realized) = 2

C10_WitnessFragment ==
    /\ pc = "fragment"
    /\ route = MaxHtmlDepth
    /\ ~result.ok
    /\ result.error.span = content.span
    /\ realized = <<>>
    /\ scopes = <<>>

\* The depth of the realization that holds the children of the content.
ListDepth == IF pc = "document" THEN 0 ELSE route + 1

\* The nodes made from the children of the content.
NodesOut ==
    IF pc = "document" THEN result.value.root.children[2].element.children
    ELSE result.value

Paragraphs == {i \in 1..Len(content.children) : content.children[i].kind = "ParElem"}

\* Where the node of child i stands: every item of the dispatch set but the
\* tag makes one node.
Position(i) ==
    Cardinality({k \in 1..i : content.children[k].kind \in DispatchKinds \ {"TagElem"}})

\* The bodies of the HTML elements that are children of the paragraph itself.
BodiesIn(par) ==
    {par.children[k].body[1] :
        k \in {j \in 1..Len(par.children) :
                    par.children[j].kind = "HtmlElem" /\ par.children[j].body # None}}

IsParagraphNode(node, par, r) ==
    LET inner == handle_list([sink |-> <<>>, realized |-> <<>>, scopes |-> <<>>],
                             r, par.children)
    IN  /\ inner.ok
        /\ node = Element([tag |-> TagP, attrs |-> <<>>, children |-> inner.value,
                           span |-> par.span])

\* C11 as stated: the children of a paragraph are realized as a nested fragment
\* with an identity scope of its own, one level deeper, so a paragraph at the
\* maximum depth fails.
C11_ParAsFragment ==
    (pc # "start" /\ Paragraphs # {}) =>
        /\ ListDepth + 1 > MaxHtmlDepth => ~result.ok
        /\ result.ok =>
            \A i \in Paragraphs :
                LET par == content.children[i]
                IN  /\ IsParagraphNode(NodesOut[Position(i)], par, ListDepth + 1)
                    /\ \E k \in 1..Len(realized) :
                            realized[k] = [kind |-> "HtmlFragment", span |-> par.span,
                                           depth |-> ListDepth + 1]
                    /\ \E k \in 1..Len(scopes) : scopes[k] = par.span

\* C11, amended: the children of a paragraph are converted in place, with no
\* realization, no identity scope and no nesting level of their own (the
\* bodies of HTML elements among them are realized one level below the list
\* that holds the paragraph), and exactly one `p` element without attributes
\* is made, with the span of the paragraph and the resulting nodes in order as
\* its children.
C11_ParConverted ==
    (pc # "start" /\ result.ok) =>
        \A i \in Paragraphs :
            LET par == content.children[i]
            IN  /\ IsParagraphNode(NodesOut[Position(i)], par, ListDepth)
                /\ \A k \in 1..Len(realized) : realized[k].span # par.span
                /\ \A k \in 1..Len(scopes) : scopes[k] # par.span
                /\ \A body \in BodiesIn(par) :
                        \E k \in 1..Len(realized) :
                            realized[k] = [kind |-> "HtmlFragment", span |-> body.span,
                                           depth |-> ListDepth + 1]
                /\ Len(NodesOut) = Position(Len(content.children))

C11_Witness ==
    /\ pc = "fragment"
    /\ route = MaxHtmlDepth - 1
    /\ Len(content.children) = 1
    /\ content.children[1].kind = "ParElem"
    /\ Len(content.children[1].children) = 2
    /\ content.children[1].children[1].kind = "TextElem"
    /\ content.children[1].children[2].kind = "LinebreakElem"
    /\ result.ok
    /\ result.value
        = <<Element([tag |-> TagP, attrs |-> <<>>, span |-> content.children[1].span,
                     children |-> <<Text(<<"a">>),
                                    Element(HtmlElementNew(TagBr,
                                        content.children[1].children[2].span))>>])>>
    /\ realized = <<[kind |-> "HtmlFragment", span |-> content.span,
                     depth |-> MaxHtmlDepth]>>
    /\ scopes = <<>>

====
